---- MODULE Spec2Model ----
(***************************************************************************)
(* F1 tire strategizer: the strategy rule cascade of                       *)
(* F1TireDataGenerator (_determine_strategy), the compound registry it is  *)
(* called with, and the literal edge cases of generate_edge_cases.         *)
(*                                                                         *)
(* Numbers.  tyre_pressure is a float with one decimal in every record the *)
(* program builds; it is held here in tenths of a psi (19.5 psi = 195), so *)
(* pressure < 17 is pressure < 170 and 19 <= pressure <= 21.5 is           *)
(* 190 <= pressure <= 215.  wear_percentage = lap_num / expected_life is a *)
(* float quotient that the code only compares with two-decimal literals;   *)
(* for the lives of the registry the float comparison agrees with the      *)
(* exact one, so lap_num / expected_life > 0.80 is                         *)
(* lap_num * 100 > 80 * expected_life.                                     *)
(*                                                                         *)
(* A call of _determine_strategy is the record of its arguments, named as  *)
(* the parameters are.  An argument that is None (a field the caller's     *)
(* record does not have) is a key absent from the record's domain.         *)
(***************************************************************************)
EXTENDS Integers, Sequences, FiniteSets, TLC

VARIABLES
  pc,        \* what the rule engine was last called for ("idle": not yet)
  args,      \* the arguments of the last call of _determine_strategy
  outcome,   \* what that call returned, or the exception it raised
  stored,    \* the label and the name stored with a classified edge case
  sample,    \* the record _generate_sample returned
  locals,    \* scenario_type and deformation_prob of that _generate_sample
  dpc,       \* derived features: how far the frame has been processed
  df,        \* derived features: the data frame, a sequence of rows
  serving,   \* derived features: what predict_strategy computed, per row
  trained,   \* derived features: the frame train_model.py derived
  rpc,       \* reverse engineering: "idle", then "returned"
  rin,       \* reverse engineering: data and lap_number, as passed in
  rloc,      \* reverse engineering: the locals of the call
  rout,      \* reverse engineering: the dict the call returned
  gen,       \* generate_dataset: per run, the streams and what was built
  fetch_lock,   \* main.py: the module global that guards cron_job
  cron,         \* main.py: where the running cron_job is, how the last one ended
  tire_images,  \* the directory tire_images: per lap directory, its images
  output,       \* the directory output: per file stem, the JSON object in it
  collection,   \* the collection 'laps': per document id, the document
  monitor       \* TireImageMonitor: its fields and where run_once is

ruleVars == <<pc, args, outcome, stored, sample, locals>>
derivedVars == <<dpc, df, serving, trained>>
reverseVars == <<rpc, rin, rloc, rout>>
datasetVars == <<gen>>
pipelineVars == <<fetch_lock, cron, tire_images, output, collection, monitor>>

\* what the actions of the rule engine and of the generator leave alone
notRuleVars == <<derivedVars, reverseVars, datasetVars, pipelineVars>>

\* what the computations of the derived features leave alone
notDerivedVars == <<ruleVars, reverseVars, datasetVars, pipelineVars>>

\* what reverse_engineer_meta_data leaves alone
notReverseVars == <<ruleVars, derivedVars, datasetVars, pipelineVars>>

\* what the runs of generate_dataset leave alone
notDatasetVars == <<ruleVars, derivedVars, reverseVars, pipelineVars>>

\* what the image monitor and cron_job leave alone
notPipelineVars == <<ruleVars, derivedVars, reverseVars, datasetVars>>

vars == <<ruleVars, derivedVars, reverseVars, datasetVars, pipelineVars>>

----------------------------------------------------------------------------
(* Bounds of the model *)

\* laps run past the expected life of the compound in a classified record
LapOver == 1
\* how far (tenths of psi, degrees) the classified records reach past each
\* threshold of the cascade
Span == 1
\* how many of the eight fields an incomplete record lacks, at most
MaxMissing == 2
\* a random draw of the generator takes the two ends of its range and
\* DrawPoints - 1 values evenly spread between them
DrawPoints == 2
\* the largest seed a generator is constructed with
MaxSeed == 11
\* the largest n_samples generate_dataset is called with
MaxSamples == 2
\* the number of laps the remote store has images of
MaxLap == 2

----------------------------------------------------------------------------
(* Compound registry: F1TireDataGenerator.__init__ *)

compounds ==
  [soft |-> [color |-> "red", expected_life |-> 22,
             optimal_temp_range |-> <<95, 105>>,
             pressure_range |-> <<195, 210>>,
             graining_susceptibility |-> 70],
   medium |-> [color |-> "yellow", expected_life |-> 32,
               optimal_temp_range |-> <<100, 110>>,
               pressure_range |-> <<190, 215>>,
               graining_susceptibility |-> 40],
   hard |-> [color |-> "white", expected_life |-> 45,
             optimal_temp_range |-> <<105, 115>>,
             pressure_range |-> <<185, 210>>,
             graining_susceptibility |-> 30],
   intermediate |-> [color |-> "green", expected_life |-> 15,
                     optimal_temp_range |-> <<85, 95>>,
                     pressure_range |-> <<180, 200>>,
                     graining_susceptibility |-> 50],
   wet |-> [color |-> "blue", expected_life |-> 10,
            optimal_temp_range |-> <<75, 85>>,
            pressure_range |-> <<175, 195>>,
            graining_susceptibility |-> 30]]

CompoundNames == DOMAIN compounds

wear_patterns == <<"even", "inner", "outer", "center", "uneven">>

WearPatternNames == {wear_patterns[i] : i \in DOMAIN wear_patterns}

Strategies == {"PIT_NOW", "PIT_SOON", "PUSH", "CONSERVE", "MONITOR"}

----------------------------------------------------------------------------
(* Python's view of an argument that may be None *)

Has(a, f) == f \in DOMAIN a

\* `if x:` and `x and ...`: None is falsy
Truthy(a, f) == Has(a, f) /\ a[f]

\* `x == 'literal'` and `x in [...]`: None equals no literal, and never raises
IsOneOf(a, f, S) == Has(a, f) /\ a[f] \in S

----------------------------------------------------------------------------
(* F1TireDataGenerator._determine_strategy *)

\* wear_percentage = lap_num / expected_life, compared with pct / 100
wear_ge(a, pct) == a.lap_num * 100 >= pct * a.expected_life
wear_gt(a, pct) == a.lap_num * 100 > pct * a.expected_life
wear_lt(a, pct) == a.lap_num * 100 < pct * a.expected_life

\* variant: the deformation rule reads the graining flag
critical_deformation_reads_graining(a) == Truthy(a, "graining")

\* CRITICAL: immediate pit conditions
critical_deformation(a) == Truthy(a, "deformation")

\* variant: the pressure limits are inclusive
critical_pressure_inclusive(a) == a.pressure <= 170 \/ a.pressure >= 240

critical_pressure(a) == a.pressure < 170 \/ a.pressure > 240

\* variant: the expected life itself is not yet worn out
critical_wear_strict(a) == wear_gt(a, 100)

critical_wear(a) == wear_ge(a, 100)

critical_uneven(a) == IsOneOf(a, "wear_pattern", {"uneven"}) /\ wear_gt(a, 80)

\* variant: PIT_SOON by wear starts where CONSERVE by wear starts
soon_wear_from_70(a) == wear_gt(a, 70)

\* PIT SOON conditions
soon_wear(a) == wear_ge(a, 85)

soon_overheat(a) == a.tyre_temp > a.opt_temp_max + 15

soon_graining(a) ==
  Truthy(a, "graining") /\ IsOneOf(a, "compound", {"soft"}) /\ a.lap_num > 15

soon_edge_wear(a) ==
  IsOneOf(a, "wear_pattern", {"center", "inner", "outer"}) /\ wear_gt(a, 75)

\* variant: a wear of exactly 60% still allows PUSH
push_conditions_inclusive(a) ==
  /\ a.lap_num * 100 <= 60 * a.expected_life
  /\ IsOneOf(a, "wear_pattern", {"even"})
  /\ a.opt_temp_min <= a.tyre_temp
  /\ a.tyre_temp <= a.opt_temp_max
  /\ ~Truthy(a, "graining")
  /\ 190 <= a.pressure
  /\ a.pressure <= 215

\* PUSH conditions (good tire state); `and` evaluates left to right and stops
\* at the first false operand
push_conditions(a) ==
  /\ wear_lt(a, 60)
  /\ IsOneOf(a, "wear_pattern", {"even"})
  /\ a.opt_temp_min <= a.tyre_temp
  /\ a.tyre_temp <= a.opt_temp_max
  /\ ~Truthy(a, "graining")
  /\ 190 <= a.pressure
  /\ a.pressure <= 215

\* the PUSH condition reaches `opt_temp_min <= tyre_temp` with opt_temp_min None
push_raises(a) ==
  wear_lt(a, 60) /\ IsOneOf(a, "wear_pattern", {"even"}) /\ ~Has(a, "opt_temp_min")

\* CONSERVE conditions (managing degradation)
conserve_wear(a) == wear_gt(a, 70) /\ wear_lt(a, 85)

\* variant: a track of exactly 40 degrees counts as hot
conserve_track_inclusive(a) == a.track_temp >= 40

conserve_track(a) == a.track_temp > 40

\* variant: graining counts as early only before lap 6
conserve_graining_before_lap_6(a) == Truthy(a, "graining") /\ a.lap_num < 6

conserve_graining(a) == Truthy(a, "graining") /\ a.lap_num < 12

\* variant: the function ends without its final return
default_strategy_missing == "None"

default_strategy == "MONITOR"

\* The cascade, in the order of the code.  A comparison or a division with a
\* None operand raises TypeError at the statement that evaluates it, and not
\* before: a return that comes earlier wins.
DetermineStrategy(a) ==
  IF ~Has(a, "lap_num") \/ ~Has(a, "expected_life") THEN "TypeError"
  ELSE IF critical_deformation(a) THEN "PIT_NOW"
  ELSE IF ~Has(a, "pressure") THEN "TypeError"
  ELSE IF critical_pressure(a) THEN "PIT_NOW"
  ELSE IF critical_wear(a) THEN "PIT_NOW"
  ELSE IF critical_uneven(a) THEN "PIT_NOW"
  ELSE IF soon_wear(a) THEN "PIT_SOON"
  ELSE IF ~Has(a, "tyre_temp") \/ ~Has(a, "opt_temp_max") THEN "TypeError"
  ELSE IF soon_overheat(a) THEN "PIT_SOON"
  ELSE IF soon_graining(a) THEN "PIT_SOON"
  ELSE IF soon_edge_wear(a) THEN "PIT_SOON"
  ELSE IF push_raises(a) THEN "TypeError"
  ELSE IF push_conditions(a) THEN "PUSH"
  ELSE IF conserve_wear(a) THEN "CONSERVE"
  ELSE IF ~Has(a, "track_temp") THEN "TypeError"
  ELSE IF conserve_track(a) THEN "CONSERVE"
  ELSE IF conserve_graining(a) THEN "CONSERVE"
  ELSE default_strategy

\* The thirteen `if` statements of the cascade in the order of the code; the
\* thirteenth is the final return.  Read on a record with all eleven arguments.
RuleCount == 13

RuleGuard(i, a) ==
  CASE i = 1 -> critical_deformation(a)
    [] i = 2 -> critical_pressure(a)
    [] i = 3 -> critical_wear(a)
    [] i = 4 -> critical_uneven(a)
    [] i = 5 -> soon_wear(a)
    [] i = 6 -> soon_overheat(a)
    [] i = 7 -> soon_graining(a)
    [] i = 8 -> soon_edge_wear(a)
    [] i = 9 -> push_conditions(a)
    [] i = 10 -> conserve_wear(a)
    [] i = 11 -> conserve_track(a)
    [] i = 12 -> conserve_graining(a)
    [] i = 13 -> TRUE

\* the statement that returns: the first whose condition holds
FirstRule(a) ==
  CHOOSE i \in 1 .. RuleCount :
    RuleGuard(i, a) /\ \A j \in 1 .. (i - 1) : ~RuleGuard(j, a)

----------------------------------------------------------------------------
(* The call of _generate_sample: a record's fields and the registry entry   *)
(* of its compound become the eleven arguments.                             *)

RecordFields ==
  {"compound", "lap_number", "wear_pattern", "sidewall_deformation",
   "tyre_pressure", "is_graining", "tyre_temperature", "track_temperature"}

ParamOf ==
  [compound |-> "compound", lap_number |-> "lap_num",
   wear_pattern |-> "wear_pattern", sidewall_deformation |-> "deformation",
   tyre_pressure |-> "pressure", is_graining |-> "graining",
   tyre_temperature |-> "tyre_temp", track_temperature |-> "track_temp"]

FieldOf(p) == CHOOSE f \in RecordFields : ParamOf[f] = p

\* r: a record over (a subset of) RecordFields; info: the registry entry
CallArgs(r, info) ==
  LET given == {ParamOf[f] : f \in DOMAIN r \cap RecordFields}
      fromRegistry == {"expected_life", "opt_temp_min", "opt_temp_max"}
  IN [p \in given \cup fromRegistry |->
        IF p = "expected_life" THEN info.expected_life
        ELSE IF p = "opt_temp_min" THEN info.optimal_temp_range[1]
        ELSE IF p = "opt_temp_max" THEN info.optimal_temp_range[2]
        ELSE r[FieldOf(p)]]

----------------------------------------------------------------------------
(* F1TireDataGenerator.generate_edge_cases *)

generate_edge_cases ==
  << [color |-> "green", compound |-> "intermediate", lap_number |-> 3,
      wear_pattern |-> "even", sidewall_deformation |-> FALSE,
      tyre_pressure |-> 195, is_graining |-> FALSE,
      tyre_temperature |-> 88, track_temperature |-> 18,
      strategy |-> "MONITOR", scenario_name |-> "Monaco_rain_start"],
     [color |-> "white", compound |-> "hard", lap_number |-> 42,
      wear_pattern |-> "outer", sidewall_deformation |-> FALSE,
      tyre_pressure |-> 165, is_graining |-> FALSE,
      tyre_temperature |-> 118, track_temperature |-> 35,
      strategy |-> "PIT_NOW", scenario_name |-> "Silverstone_blowout_risk"],
     [color |-> "yellow", compound |-> "medium", lap_number |-> 28,
      wear_pattern |-> "center", sidewall_deformation |-> FALSE,
      tyre_pressure |-> 225, is_graining |-> FALSE,
      tyre_temperature |-> 125, track_temperature |-> 45,
      strategy |-> "PIT_SOON", scenario_name |-> "Singapore_overheating"],
     [color |-> "red", compound |-> "soft", lap_number |-> 6,
      wear_pattern |-> "uneven", sidewall_deformation |-> FALSE,
      tyre_pressure |-> 200, is_graining |-> TRUE,
      tyre_temperature |-> 88, track_temperature |-> 16,
      strategy |-> "CONSERVE", scenario_name |-> "Barcelona_cold_graining"],
     [color |-> "red", compound |-> "soft", lap_number |-> 8,
      wear_pattern |-> "even", sidewall_deformation |-> FALSE,
      tyre_pressure |-> 205, is_graining |-> FALSE,
      tyre_temperature |-> 102, track_temperature |-> 28,
      strategy |-> "PUSH", scenario_name |-> "Perfect_push_conditions"],
     [color |-> "yellow", compound |-> "medium", lap_number |-> 25,
      wear_pattern |-> "even", sidewall_deformation |-> TRUE,
      tyre_pressure |-> 200, is_graining |-> FALSE,
      tyre_temperature |-> 105, track_temperature |-> 30,
      strategy |-> "PIT_NOW",
      scenario_name |-> "Critical_sidewall_deformation"] >>

----------------------------------------------------------------------------
(* Inputs of the rule engine *)

LapGrid(c) == 1 .. (compounds[c].expected_life + LapOver)

PressureGrid ==
  ((170 - Span) .. 170) \cup ((190 - Span) .. 190)
    \cup (215 .. (215 + Span)) \cup (240 .. (240 + Span))

TyreTempGrid(c) ==
  LET lo == compounds[c].optimal_temp_range[1]
      hi == compounds[c].optimal_temp_range[2]
  IN ((lo - Span) .. lo) \cup (hi .. (hi + Span))
       \cup ((hi + 15) .. (hi + 15 + Span))

TrackTempGrid == 40 .. (40 + Span)

\* names outside the declared enums
UnknownCompounds == {"ultrasoft"}
UnknownWearPatterns == {"flat_spot"}

\* no call of _determine_strategy made yet
NoCall == [p \in {} |-> 0]

NoEdgeCase == [strategy |-> "none", scenario_name |-> "none"]

\* the fields of a TireState, out of an edge case
TireStateOf(e) == [f \in RecordFields |-> e[f]]

Drop(r, missing) == [f \in DOMAIN r \ missing |-> r[f]]

----------------------------------------------------------------------------
(* F1TireDataGenerator.generate_dataset and _generate_sample                *)

scenario_types == <<"normal", "aggressive", "weather", "incident", "strategy">>

\* the values a draw over the integers lo .. hi takes in the model
IntPicks(lo, hi) == {lo + ((hi - lo) * k) \div DrawPoints : k \in 0 .. DrawPoints}

\* int(np.random.uniform(expected_life * loPct/100, expected_life * hiPct/100)):
\* uniform draws from [low, high), int() truncates
LapLow(life, loPct) == (life * loPct) \div 100

LapHigh(life, hiPct) ==
  IF (life * hiPct) % 100 = 0 THEN (life * hiPct) \div 100 - 1
  ELSE (life * hiPct) \div 100

Max(x, y) == IF x >= y THEN x ELSE y
Min(x, y) == IF x <= y THEN x ELSE y

\* lap_number = max(1, int(np.random.uniform(...))), by scenario
LapRange(scenario_type, life) ==
  CASE scenario_type = "normal" -> <<1, Max(1, LapHigh(life, 95))>>
    [] scenario_type = "aggressive" -> <<1, Max(1, LapHigh(life, 85))>>
    [] scenario_type = "weather" -> <<1, Max(1, LapHigh(life, 60))>>
    [] scenario_type = "incident" ->
         <<Max(1, LapLow(life, 30)), Max(1, LapHigh(life, 70))>>
    [] OTHER -> <<Max(1, LapLow(life, 85)), Max(1, LapHigh(life, 115))>>

\* the laps a draw takes in the model: the picks over the range, and the lap
\* that ends the expected life when the range holds it
LapPicks(scenario_type, life) ==
  LET laps == LapRange(scenario_type, life)
  IN IntPicks(laps[1], laps[2]) \cup ({life} \cap (laps[1] .. laps[2]))

\* track_temp = int(np.random.uniform(lo, hi))
TrackTempRange(compound, scenario_type) ==
  IF compound \in {"intermediate", "wet"} THEN <<10, 24>>
  ELSE IF scenario_type = "weather" THEN <<15, 29>>
  ELSE <<20, 44>>

\* tyre_temp = int(track_temp + np.random.uniform(5, 15) + temp_offset), with
\* temp_offset from uniform(-10, 0), uniform(-5, 5) or uniform(0, 15) by stint
\* stage: the range of the sum of the two draws, truncated
TyreTempOffsetRange(lap_number, life) ==
  IF lap_number * 100 < 20 * life THEN <<-5, 14>>
  ELSE IF lap_number * 100 < 70 * life THEN <<0, 19>>
  ELSE <<5, 29>>

\* tyre_pressure = round(base_pressure + pressure_variance, 1) in tenths:
\* base from uniform(*pressure_range), variance from uniform(-1.5, 1.5), and
\* uniform(-1, 0.5) more with wear or overheating
PressureRange(info, lap_number, tyre_temp) ==
  IF lap_number * 100 > 80 * info.expected_life
       \/ tyre_temp > info.optimal_temp_range[2] + 10
  THEN <<info.pressure_range[1] - 25, info.pressure_range[2] + 20>>
  ELSE <<info.pressure_range[1] - 15, info.pressure_range[2] + 15>>

\* graining_prob in 1/10000, before the cap of min(graining_prob, 0.95)
GrainingProb(info, lap_number, track_temp, tyre_temp) ==
  LET base == info.graining_susceptibility * 100
      early == IF lap_number < 8 /\ track_temp < 25 THEN (base * 5) \div 2 ELSE base
  IN IF tyre_temp < info.optimal_temp_range[1] THEN (early * 3) \div 2 ELSE early

\* deformation_prob in percent
DeformationProb(lap_number, life, tyre_pressure) ==
  IF lap_number * 100 > 100 * life THEN 25
  ELSE IF lap_number * 100 > 90 * life THEN 8
  ELSE IF tyre_pressure < 170 \/ tyre_pressure > 240 THEN 15
  ELSE 1

\* random.random() < prob / scale, random.random() being in [0, 1)
Bernoulli(prob, scale) == {b \in BOOLEAN : IF b THEN prob > 0 ELSE prob < scale}

NoSample == [strategy |-> "none"]
NoLocals == [scenario_type |-> "none", deformation_prob |-> 0]

\* one iteration of the loop of generate_dataset: the scenario is drawn and
\* _generate_sample builds, labels and returns the record
GenerateSample ==
  /\ pc = "idle"
  /\ \E si \in DOMAIN scenario_types, compound \in CompoundNames,
        wear_pattern \in WearPatternNames :
       LET scenario_type == scenario_types[si]
           info == compounds[compound]
           life == info.expected_life
           tracks == TrackTempRange(compound, scenario_type)
       IN \E lap_number \in LapPicks(scenario_type, life),
             track_temp \in IntPicks(tracks[1], tracks[2]) :
            LET offs == TyreTempOffsetRange(lap_number, life)
            IN \E tyre_temp \in IntPicks(track_temp + offs[1], track_temp + offs[2]) :
                 LET press == PressureRange(info, lap_number, tyre_temp)
                     gprob == Min(GrainingProb(info, lap_number, track_temp, tyre_temp),
                                  9500)
                 IN \E tyre_pressure \in IntPicks(press[1], press[2]),
                       is_graining \in Bernoulli(gprob, 10000) :
                      LET dprob == DeformationProb(lap_number, life, tyre_pressure)
                      IN \E sidewall_deformation \in Bernoulli(dprob, 100) :
                           LET r == [compound |-> compound,
                                     lap_number |-> lap_number,
                                     wear_pattern |-> wear_pattern,
                                     sidewall_deformation |-> sidewall_deformation,
                                     tyre_pressure |-> tyre_pressure,
                                     is_graining |-> is_graining,
                                     tyre_temperature |-> tyre_temp,
                                     track_temperature |-> track_temp]
                               a == CallArgs(r, info)
                               strategy == DetermineStrategy(a)
                           IN /\ args' = a
                              /\ outcome' = strategy
                              /\ sample' =
                                   [color |-> info.color,
                                    compound |-> compound,
                                    lap_number |-> lap_number,
                                    wear_pattern |-> wear_pattern,
                                    sidewall_deformation |-> sidewall_deformation,
                                    tyre_pressure |-> tyre_pressure,
                                    is_graining |-> is_graining,
                                    tyre_temperature |-> tyre_temp,
                                    track_temperature |-> track_temp,
                                    strategy |-> strategy]
                              /\ locals' = [scenario_type |-> scenario_type,
                                            deformation_prob |-> dprob]
  /\ pc' = "sample"
  /\ stored' = NoEdgeCase
  /\ UNCHANGED notRuleVars

----------------------------------------------------------------------------
(* Derived features: F1TireDataGenerator._add_derived_features (batch, at   *)
(* label-generation time), predict_strategy (one record, at serving time)   *)
(* and the edge-case section of train_model.py.                             *)
(*                                                                         *)
(* lap_percentage and risk_score are float quotients by expected_life; they *)
(* are held as fractions [num, den] with den the expected life the code     *)
(* divided by: risk_score = (40 * lap_number + den * rest) / den.           *)

DerivedCols ==
  {"expected_life", "lap_percentage", "temp_differential",
   "is_pressure_optimal", "is_temp_optimal", "wear_severity", "risk_score"}

Frac(n, d) == [num |-> n, den |-> d]

\* int(bool)
Int01(b) == IF b THEN 1 ELSE 0

\* the columns (keys) of `new` set on a row, others kept: df[col] = ...
SetCols(row, new) ==
  [k \in DOMAIN row \cup DOMAIN new |-> IF k \in DOMAIN new THEN new[k] ELSE row[k]]

\* the raw fields of a row, derived columns left out
RawOf(row) == [k \in DOMAIN row \ DerivedCols |-> row[k]]

\* the derived columns of a row
DerivedOf(row) == [k \in DerivedCols |-> row[k]]

\* variant: a table of its own, behind the registry for the medium compound
compound_life_map_stale ==
  [c \in CompoundNames |-> IF c = "medium" THEN 30 ELSE compounds[c].expected_life]

\* _add_derived_features: compound_life_map, built from the registry
compound_life_map == [c \in CompoundNames |-> compounds[c].expected_life]

\* _add_derived_features: wear_severity_map
wear_severity_map ==
  [even |-> 0, inner |-> 2, outer |-> 2, center |-> 3, uneven |-> 4]

\* variant: the risk score is added to the one the row already has
risk_score_accumulated(row, life, severity, pressure_ok, temp_ok) ==
  LET rest == severity * 10 + Int01(row.sidewall_deformation) * 50
                + Int01(row.is_graining) * 15 + Int01(~pressure_ok) * 10
                + Int01(~temp_ok) * 5
      before == IF "risk_score" \in DOMAIN row THEN row.risk_score.num ELSE 0
  IN Frac(before + 40 * row.lap_number + life * rest, life)

\* df['risk_score'] = lap_percentage * 40 + wear_severity * 10 + ...
risk_score(row, life, severity, pressure_ok, temp_ok) ==
  LET rest == severity * 10 + Int01(row.sidewall_deformation) * 50
                + Int01(row.is_graining) * 15 + Int01(~pressure_ok) * 10
                + Int01(~temp_ok) * 5
  IN Frac(40 * row.lap_number + life * rest, life)

\* what _add_derived_features does to one row of the frame
AddDerivedRow(row) ==
  LET life == compound_life_map[row.compound]
      pressure_ok == 190 <= row.tyre_pressure /\ row.tyre_pressure <= 215
      temp_ok == 95 <= row.tyre_temperature /\ row.tyre_temperature <= 115
      severity == wear_severity_map[row.wear_pattern]
  IN SetCols(row,
       [expected_life |-> life,
        lap_percentage |-> Frac(row.lap_number, life),
        temp_differential |-> row.tyre_temperature - row.track_temperature,
        is_pressure_optimal |-> pressure_ok,
        is_temp_optimal |-> temp_ok,
        wear_severity |-> severity,
        risk_score |-> risk_score(row, life, severity, pressure_ok, temp_ok)])

\* _add_derived_features on the frame: every column operation is row by row
AddDerivedFeatures(frame) == [i \in DOMAIN frame |-> AddDerivedRow(frame[i])]

\* variant: the serving-time table has drifted for the medium compound
predict_compound_life_map_drifted ==
  [soft |-> 22, medium |-> 30, hard |-> 45, intermediate |-> 15, wet |-> 10]

\* predict_strategy: compound_life_map, a literal
predict_compound_life_map ==
  [soft |-> 22, medium |-> 32, hard |-> 45, intermediate |-> 15, wet |-> 10]

\* predict_strategy: wear_severity_map, a literal
predict_wear_severity_map ==
  [even |-> 0, inner |-> 2, outer |-> 2, center |-> 3, uneven |-> 4]

\* the derived features predict_strategy computes from tire_data
PredictDerived(tire_data) ==
  LET life == predict_compound_life_map[tire_data.compound]
      pressure_ok == 190 <= tire_data.tyre_pressure /\ tire_data.tyre_pressure <= 215
      temp_ok == 95 <= tire_data.tyre_temperature /\ tire_data.tyre_temperature <= 115
      severity == predict_wear_severity_map[tire_data.wear_pattern]
      rest == severity * 10 + Int01(tire_data.sidewall_deformation) * 50
                + Int01(tire_data.is_graining) * 15 + Int01(~pressure_ok) * 10
                + Int01(~temp_ok) * 5
  IN [expected_life |-> life,
      lap_percentage |-> Frac(tire_data.lap_number, life),
      temp_differential |-> tire_data.tyre_temperature - tire_data.track_temperature,
      is_pressure_optimal |-> pressure_ok,
      is_temp_optimal |-> temp_ok,
      wear_severity |-> severity,
      risk_score |-> Frac(40 * tire_data.lap_number + life * rest, life)]

\* train_model.py, section 6: compound_life_map, a literal
train_compound_life_map ==
  [soft |-> 22, medium |-> 32, hard |-> 45, intermediate |-> 15, wet |-> 10]

\* train_model.py, section 6: wear_severity_map, a literal
train_wear_severity_map ==
  [even |-> 0, inner |-> 2, outer |-> 2, center |-> 3, uneven |-> 4]

\* train_model.py, section 6, on one row of edge_df
TrainDerivedRow(row) ==
  LET life == train_compound_life_map[row.compound]
      pressure_ok == 190 <= row.tyre_pressure /\ row.tyre_pressure <= 215
      temp_ok == 95 <= row.tyre_temperature /\ row.tyre_temperature <= 115
      severity == train_wear_severity_map[row.wear_pattern]
      rest == severity * 10 + Int01(row.sidewall_deformation) * 50
                + Int01(row.is_graining) * 15 + Int01(~pressure_ok) * 10
                + Int01(~temp_ok) * 5
  IN SetCols(row,
       [expected_life |-> life,
        lap_percentage |-> Frac(row.lap_number, life),
        temp_differential |-> row.tyre_temperature - row.track_temperature,
        is_pressure_optimal |-> pressure_ok,
        is_temp_optimal |-> temp_ok,
        wear_severity |-> severity,
        risk_score |-> Frac(40 * row.lap_number + life * rest, life)])

TrainDerived(frame) == [i \in DOMAIN frame |-> TrainDerivedRow(frame[i])]

\* Raw frames the derived features are computed on: one-row frames over the
\* declared domains, around the limits of the two optimal flags, and the
\* frame of the edge cases
DerivedPressureGrid == ((190 - Span) .. 190) \cup (215 .. (215 + Span))

DerivedTempGrid == ((95 - Span) .. 95) \cup (115 .. (115 + Span))

DerivedTrackGrid == 40 .. (40 + Span)

RawFrames ==
  { << [compound |-> c, lap_number |-> lap, wear_pattern |-> w,
        sidewall_deformation |-> d, tyre_pressure |-> p, is_graining |-> g,
        tyre_temperature |-> t, track_temperature |-> tr] >> :
      c \in CompoundNames, w \in WearPatternNames,
      lap \in {1, 12} \cup (45 .. (45 + LapOver)),
      d \in BOOLEAN, g \in BOOLEAN, p \in DerivedPressureGrid,
      t \in DerivedTempGrid, tr \in DerivedTrackGrid }
    \cup {generate_edge_cases}

NoFrame == << >>

DerivedIdle ==
  /\ dpc = "idle"
  /\ df = NoFrame
  /\ serving = NoFrame
  /\ trained = NoFrame

\* a frame of raw records is built (pd.DataFrame(data))
LoadFrame ==
  /\ dpc = "idle"
  /\ \E frame \in RawFrames : df' = frame
  /\ dpc' = "raw"
  /\ UNCHANGED <<serving, trained>>

\* df = self._add_derived_features(df), a first time and once more
AddDerived ==
  /\ dpc \in {"raw", "augmented"}
  /\ df' = AddDerivedFeatures(df)
  /\ dpc' = IF dpc = "raw" THEN "augmented" ELSE "augmented_again"
  /\ UNCHANGED <<serving, trained>>

\* predict_strategy on every record of the frame, one at a time
Predict ==
  /\ dpc = "augmented_again"
  /\ serving' = [i \in DOMAIN df |-> PredictDerived(RawOf(df[i]))]
  /\ dpc' = "served"
  /\ UNCHANGED <<df, trained>>

\* section 6 of train_model.py on the raw frame
Train ==
  /\ dpc = "served"
  /\ trained' = TrainDerived([i \in DOMAIN df |-> RawOf(df[i])])
  /\ dpc' = "trained"
  /\ UNCHANGED <<df, serving>>

----------------------------------------------------------------------------
(* reverse_engineer_meta_data (test_predictions.py): sensor values inferred *)
(* from what was seen of the tyre.                                          *)
(*                                                                         *)
(* The temperatures random.uniform draws are held in halves of a degree.    *)
(* tyre_temp, to which lap_number / expected_life * 10 is added, is held    *)
(* exactly, as a count of 1 / (2 * expected_life) of a degree; int() of the *)
(* float the code computes agrees with int() of the exact value for the     *)
(* lives, ranges and laps of the model.  The pressure is held in hundredths *)
(* of a psi until round(tyre_pressure, 1), and stays in hundredths after.   *)

\* track_temp_base = random.uniform(lo, hi) by compound, 28 for any other
track_temp_base(compound) ==
  CASE compound = "soft" -> <<2 * 20, 2 * 32>>
    [] compound = "medium" -> <<2 * 25, 2 * 38>>
    [] compound = "hard" -> <<2 * 32, 2 * 45>>
    [] compound = "intermediate" -> <<2 * 12, 2 * 25>>
    [] compound = "wet" -> <<2 * 10, 2 * 20>>
    [] OTHER -> <<2 * 28, 2 * 28>>

compound_optimal_temps ==
  [soft |-> <<95, 105>>, medium |-> <<100, 110>>, hard |-> <<105, 115>>,
   intermediate |-> <<85, 95>>, wet |-> <<75, 85>>]

\* compound_optimal_temps.get(compound, (100, 110))
optimal_temps_get(compound) ==
  IF compound \in DOMAIN compound_optimal_temps
  THEN compound_optimal_temps[compound] ELSE <<100, 110>>

compound_life == [soft |-> 22, medium |-> 32, hard |-> 45, intermediate |-> 15, wet |-> 10]

\* compound_life.get(compound, 30)
compound_life_get(compound) ==
  IF compound \in DOMAIN compound_life THEN compound_life[compound] ELSE 30

\* variant: a wear pattern that is not recognised is taken for overheating
default_tyre_temp_band_overheated(optimal_min, optimal_max) ==
  <<2 * (optimal_max + 5), 2 * (optimal_max + 15)>>

\* else: tyre_temp = random.uniform(optimal_min, optimal_max)
default_tyre_temp_band(optimal_min, optimal_max) ==
  <<2 * optimal_min, 2 * optimal_max>>

\* the range tyre_temp is first drawn from
tyre_temp_band(is_graining, wear_pattern, optimal_min, optimal_max) ==
  IF is_graining THEN <<2 * (optimal_min - 15), 2 * (optimal_min - 5)>>
  ELSE CASE wear_pattern = "even" -> <<2 * optimal_min, 2 * optimal_max>>
         [] wear_pattern = "center" ->
              <<2 * (optimal_max + 5), 2 * (optimal_max + 15)>>
         [] wear_pattern \in {"inner", "outer"} ->
              <<2 * (optimal_min + 5), 2 * (optimal_max + 10)>>
         [] wear_pattern = "uneven" ->
              <<2 * (optimal_min - 5), 2 * (optimal_max + 15)>>
         [] OTHER -> default_tyre_temp_band(optimal_min, optimal_max)

\* wear_heat_increase = min(wear_percentage * 10, 10), in 1 / (2 * life)
wear_heat_increase(lap_number, expected_life) ==
  Min(20 * lap_number, 20 * expected_life)

\* variant: the hotter of the two is dropped
deformation_heat_capped(tyre_temp, floor) == Min(tyre_temp, floor)

\* tyre_temp = max(tyre_temp, optimal_max + 15)
deformation_heat(tyre_temp, floor) == Max(tyre_temp, floor)

\* int(n / d): truncation towards zero
IntOf(n, d) == IF n >= 0 THEN n \div d ELSE -((-n) \div d)

\* else: tyre_pressure = random.uniform(19.0, 21.5)
default_pressure_band == <<1900, 2150>>

\* the range tyre_pressure is first drawn from
pressure_band(wear_pattern) ==
  CASE wear_pattern = "even" -> <<1950, 2100>>
    [] wear_pattern = "center" -> <<2150, 2350>>
    [] wear_pattern = "inner" -> <<1850, 2150>>
    [] wear_pattern = "outer" -> <<1850, 2150>>
    [] wear_pattern = "uneven" -> <<1800, 2250>>
    [] OTHER -> default_pressure_band

\* the range it is drawn from again when the sidewall is deformed
deformation_pressure_band(low) == IF low THEN <<1500, 1750>> ELSE <<2300, 2500>>

\* variant: the pressure is returned as computed
round_1_skipped(p) == {p}

\* round(tyre_pressure, 1): the nearest tenth; halfway between two tenths the
\* float that stands for the sum decides, so either of them
round_1(p) ==
  LET down == (p \div 10) * 10
  IN IF p % 10 < 5 THEN {down}
     ELSE IF p % 10 > 5 THEN {down + 10}
     ELSE {down, down + 10}

\* max(15.0, min(tyre_pressure, 25.0))
clamp_pressure(p) == Max(1500, Min(p, 2500))

\* the laps the function is called with: none and negative ones, the first,
\* mid-life, and the end of the expected life and past it
ReverseLaps(expected_life) ==
  ((0 - LapOver) .. 1) \cup {expected_life \div 2}
    \cup (expected_life .. (expected_life + LapOver))

NoReverseCall == [data |-> NoCall, lap_number |-> 0]

NoReverseLocals ==
  [track_temp_base |-> 0, optimal_min |-> 0, optimal_max |-> 0,
   expected_life |-> 0, drawn_temp |-> 0, tyre_temp |-> Frac(0, 1),
   drawn_pressure |-> 0]

ReverseIdle ==
  /\ rpc = "idle"
  /\ rin = NoReverseCall
  /\ rloc = NoReverseLocals
  /\ rout = NoCall

\* one call of reverse_engineer_meta_data(data, lap_number)
ReverseEngineer ==
  /\ rpc = "idle"
  /\ \E compound \in CompoundNames \cup UnknownCompounds,
        wear_pattern \in WearPatternNames \cup UnknownWearPatterns,
        is_graining \in BOOLEAN, sidewall_deformation \in BOOLEAN :
       LET opt == optimal_temps_get(compound)
           optimal_min == opt[1]
           optimal_max == opt[2]
           expected_life == compound_life_get(compound)
           bases == track_temp_base(compound)
           band == tyre_temp_band(is_graining, wear_pattern, optimal_min, optimal_max)
           pband == pressure_band(wear_pattern)
           data == [compound |-> compound, wear_pattern |-> wear_pattern,
                    is_graining |-> is_graining,
                    sidewall_deformation |-> sidewall_deformation]
       IN \E lap_number \in ReverseLaps(expected_life),
             base \in IntPicks(bases[1], bases[2]),
             variation \in IntPicks(-4, 4),
             drawn_temp \in IntPicks(band[1], band[2]),
             drawn_pressure \in IntPicks(pband[1], pband[2]),
             low \in IF sidewall_deformation THEN Bernoulli(70, 100) ELSE {FALSE} :
            LET dband == deformation_pressure_band(low)
                den == 2 * expected_life
                heated == drawn_temp * expected_life
                            + wear_heat_increase(lap_number, expected_life)
                tyre_temp == IF sidewall_deformation
                             THEN deformation_heat(heated, (optimal_max + 15) * den)
                             ELSE heated
                tyre_temperature == IntOf(tyre_temp, den)
                track_temperature == IntOf(base + variation, 2)
            IN \E drawn \in IF sidewall_deformation
                            THEN IntPicks(dband[1], dband[2]) ELSE {drawn_pressure} :
                 \E rounded \in round_1(drawn + (tyre_temperature - 100) * 5) :
                   /\ rin' = [data |-> data, lap_number |-> lap_number]
                   /\ rloc' = [track_temp_base |-> base,
                               optimal_min |-> optimal_min,
                               optimal_max |-> optimal_max,
                               expected_life |-> expected_life,
                               drawn_temp |-> drawn_temp,
                               tyre_temp |-> Frac(tyre_temp, den),
                               drawn_pressure |-> drawn_pressure]
                   /\ rout' = SetCols(data,
                                [lap_number |-> lap_number,
                                 tyre_pressure |-> clamp_pressure(rounded),
                                 tyre_temperature |-> tyre_temperature,
                                 track_temperature |-> track_temperature])
  /\ rpc' = "returned"
  /\ UNCHANGED notReverseVars

----------------------------------------------------------------------------
(* generate_dataset with its two random streams.  `random` and `np.random`  *)
(* are module-level generators; each is a state that a draw reads and       *)
(* advances.  The streams of the model have Modulus states and step as      *)
(* linear congruential generators; a draw in state s yields the number      *)
(* s / Modulus of [0, 1).  What is kept of the real generators is that a    *)
(* draw is a function of the state, that seeding sets the state from the    *)
(* seed alone, and the order in which the code draws.                       *)

\* the program is run twice
Runs == 1 .. 2

\* the states of a stream
Modulus == 64

\* the seeds F1TireDataGenerator is constructed with
Seeds == 0 .. MaxSeed

\* what the stream of random holds in a process that has not seeded it;
\* np.random then holds Modulus - 1 less that
Unseeded == IntPicks(0, Modulus - 1)

\* one draw of random advances it
RandomNext(s) == (5 * s + 3) % Modulus

\* one draw of np.random advances it
NumpyNext(s) == (13 * s + 7) % Modulus

\* variant: __init__ leaves the stream of random as it found it
random_seed_skipped(seed, state) == state

\* random.seed(seed)
random_seed(seed, state) == (7 * seed + 1) % Modulus

\* np.random.seed(seed)
np_random_seed(seed, state) == (11 * seed + 5) % Modulus

\* list(self.compounds.keys())
compound_keys == <<"soft", "medium", "hard", "intermediate", "wet">>

\* random.choices(population, weights)[0] in state s: the first index whose
\* cumulative weight (percent) exceeds the draw
Choices(cum, s) ==
  CHOOSE i \in DOMAIN cum :
    /\ s * 100 < cum[i] * Modulus
    /\ \A j \in 1 .. (i - 1) : ~(s * 100 < cum[j] * Modulus)

\* random.random() < prob / scale in state s
Below(prob, scale, s) == s * scale < prob * Modulus

\* the bounds of the uniform draw of lap_number, in hundredths of a lap
lap_uniform(scenario_type, life) ==
  CASE scenario_type = "normal" -> <<100, 95 * life>>
    [] scenario_type = "aggressive" -> <<100, 85 * life>>
    [] scenario_type = "weather" -> <<100, 60 * life>>
    [] scenario_type = "incident" -> <<30 * life, 70 * life>>
    [] OTHER -> <<85 * life, 115 * life>>

\* int(np.random.uniform(lo / 100, hi / 100)) in state s
UniformInt(lo, hi, s) == (lo * Modulus + (hi - lo) * s) \div (100 * Modulus)

\* the bounds of temp_offset = np.random.uniform(lo, hi)
temp_offset_uniform(lap_number, life) ==
  IF lap_number * 100 < 20 * life THEN <<-10, 0>>
  ELSE IF lap_number * 100 < 70 * life THEN <<-5, 5>>
  ELSE <<0, 15>>

\* the cumulative weights of the wear patterns
wear_pattern_weights(scenario_type, lap_number, life) ==
  IF scenario_type = "aggressive" \/ lap_number * 100 > 75 * life
  THEN <<20, 45, 70, 85, 100>>
  ELSE IF scenario_type = "incident" THEN <<10, 30, 50, 60, 100>>
  ELSE <<60, 75, 90, 95, 100>>

\* the one element of a set of one element
Only(S) == CHOOSE x \in S : TRUE

\* a block of statements F run on the locals l, l computed once before it
Step(l, F(_)) == Only({F(x) : x \in {l}})

\* The blocks of _generate_sample in the order of the code.  Each takes the
\* locals so far, with the state rs of random and ns of np.random, and gives
\* them back with what it assigned and the streams advanced by its draws.

\* compound = random.choices(list(self.compounds.keys()), weights=...)[0]
DrawCompound(l) ==
  SetCols(l, [compound |-> compound_keys[Choices(<<35, 75, 95, 98, 100>>, l.rs)],
              rs |-> RandomNext(l.rs)])

\* lap_number = max(1, int(np.random.uniform(...)))
DrawLapNumber(l) ==
  LET laps == lap_uniform(l.scenario_type, compounds[l.compound].expected_life)
  IN SetCols(l, [lap_number |-> Max(1, UniformInt(laps[1], laps[2], l.ns)),
                 ns |-> NumpyNext(l.ns)])

\* track_temp = int(np.random.uniform(lo, hi))
DrawTrackTemp(l) ==
  LET tracks == TrackTempRange(l.compound, l.scenario_type)
  IN SetCols(l, [track_temp |->
                   tracks[1] + ((tracks[2] + 1 - tracks[1]) * l.ns) \div Modulus,
                 ns |-> NumpyNext(l.ns)])

\* temp_offset = np.random.uniform(lo, hi), then
\* tyre_temp = int(track_temp + np.random.uniform(5, 15) + temp_offset)
DrawTyreTemp(l) ==
  LET offs == temp_offset_uniform(l.lap_number, compounds[l.compound].expected_life)
      second == NumpyNext(l.ns)
  IN SetCols(l, [tyre_temp |->
                   ((l.track_temp + 5 + offs[1]) * Modulus
                      + (offs[2] - offs[1]) * l.ns + 10 * second) \div Modulus,
                 ns |-> NumpyNext(second)])

\* base_pressure, pressure_variance, one more uniform(-1, 0.5) with wear or
\* overheating, and tyre_pressure = round(base_pressure + pressure_variance, 1)
\* in tenths, a half rounded up
DrawTyrePressure(l) ==
  LET info == compounds[l.compound]
      second == NumpyNext(l.ns)
      third == NumpyNext(second)
      more == l.lap_number * 100 > 80 * info.expected_life
                \/ l.tyre_temp > info.optimal_temp_range[2] + 10
      pressure == (info.pressure_range[1] - 15) * Modulus
                    + (info.pressure_range[2] - info.pressure_range[1]) * l.ns
                    + 30 * second
                    + (IF more THEN 15 * third - 10 * Modulus ELSE 0)
  IN SetCols(l, [tyre_pressure |-> (2 * pressure + Modulus) \div (2 * Modulus),
                 ns |-> IF more THEN NumpyNext(third) ELSE third])

\* wear_pattern = random.choices(self.wear_patterns, weights=...)[0]
DrawWearPattern(l) ==
  LET weights == wear_pattern_weights(l.scenario_type, l.lap_number,
                                      compounds[l.compound].expected_life)
  IN SetCols(l, [wear_pattern |-> wear_patterns[Choices(weights, l.rs)],
                 rs |-> RandomNext(l.rs)])

\* is_graining = random.random() < min(graining_prob, 0.95)
DrawGraining(l) ==
  LET graining_prob == GrainingProb(compounds[l.compound], l.lap_number,
                                    l.track_temp, l.tyre_temp)
  IN SetCols(l, [is_graining |-> Below(Min(graining_prob, 9500), 10000, l.rs),
                 rs |-> RandomNext(l.rs)])

\* sidewall_deformation = random.random() < deformation_prob
DrawDeformation(l) ==
  LET deformation_prob == DeformationProb(l.lap_number,
                                          compounds[l.compound].expected_life,
                                          l.tyre_pressure)
  IN SetCols(l, [sidewall_deformation |-> Below(deformation_prob, 100, l.rs),
                 rs |-> RandomNext(l.rs)])

\* the fields of the record, out of the locals
LocalsState(l) ==
  [compound |-> l.compound, lap_number |-> l.lap_number,
   wear_pattern |-> l.wear_pattern,
   sidewall_deformation |-> l.sidewall_deformation,
   tyre_pressure |-> l.tyre_pressure, is_graining |-> l.is_graining,
   tyre_temperature |-> l.tyre_temp, track_temperature |-> l.track_temp]

\* strategy = self._determine_strategy(...)
CallDetermineStrategy(l) ==
  SetCols(l, [call |-> CallArgs(LocalsState(l), compounds[l.compound])])

\* return {...}: the record, with the call that labelled it and the streams
ReturnSample(l) ==
  [sample |-> SetCols(LocalsState(l),
                [color |-> compounds[l.compound].color,
                 strategy |-> DetermineStrategy(l.call)]),
   call |-> l.call,
   random_state |-> l.rs,
   np_state |-> l.ns]

\* _generate_sample(scenario_type) with random in state rs0 and np.random in
\* state ns0
SeededSample(scenario_type, rs0, ns0) ==
  Step(Step(Step(Step(Step(Step(Step(Step(Step(Step(
    [scenario_type |-> scenario_type, rs |-> rs0, ns |-> ns0],
    DrawCompound), DrawLapNumber), DrawTrackTemp), DrawTyreTemp),
    DrawTyrePressure), DrawWearPattern), DrawGraining), DrawDeformation),
    CallDetermineStrategy), ReturnSample)

\* the loop of generate_dataset, k samples from the states rs and ns on
RECURSIVE SeededLoop(_, _, _)
SeededLoop(k, rs, ns) ==
  IF k = 0
  THEN [data |-> << >>, calls |-> << >>, random_state |-> rs, np_state |-> ns]
  ELSE Only({
         Only({ [data |-> <<one.sample>> \o rest.data,
                 calls |-> <<one.call>> \o rest.calls,
                 random_state |-> rest.random_state,
                 np_state |-> rest.np_state] :
                rest \in {SeededLoop(k - 1, one.random_state, one.np_state)} }) :
         one \in {SeededSample(scenario_types[Choices(<<60, 75, 85, 95, 100>>, rs)],
                               RandomNext(rs), ns)} })

\* a process that has not constructed the generator
NewRun(rs) ==
  [pc |-> "new", seed |-> 0, n_samples |-> 0,
   unseeded |-> rs, random_state |-> rs, np_state |-> Modulus - 1 - rs,
   data |-> << >>, calls |-> << >>, df |-> NoFrame]

DatasetIdle == gen = [r \in Runs |-> NewRun(0)]

\* generator = F1TireDataGenerator(seed)
Construct(r) ==
  /\ gen[r].pc = "new"
  /\ \E seed \in Seeds :
       gen' = [gen EXCEPT ![r].pc = "constructed",
                          ![r].seed = seed,
                          ![r].np_state = np_random_seed(seed, gen[r].np_state),
                          ![r].random_state = random_seed(seed, gen[r].random_state)]

\* generator.generate_dataset(n_samples)
GenerateDataset(r) ==
  /\ gen[r].pc = "constructed"
  /\ \E n_samples \in 1 .. MaxSamples :
       \E loop \in {SeededLoop(n_samples, gen[r].random_state, gen[r].np_state)} :
          gen' = [gen EXCEPT ![r].pc = "returned",
                             ![r].n_samples = n_samples,
                             ![r].random_state = loop.random_state,
                             ![r].np_state = loop.np_state,
                             ![r].data = loop.data,
                             ![r].calls = loop.calls,
                             ![r].df = AddDerivedFeatures(loop.data)]

----------------------------------------------------------------------------
(* The serving pipeline: TireImageMonitor.run_once downloads the new images  *)
(* and calls cron_job, which has process_tire_images write one JSON file per *)
(* lap directory, completes and labels the files, and copies them into the   *)
(* collection 'laps'.                                                        *)
(*                                                                           *)
(* A lap is named by the decimal digits the remote store uses in its keys    *)
(* ("lap_9/tire_front_left.jpg"): the directory tire_images/lap_9 and the    *)
(* file output/lap_9.json are both identified by the digits <<9>>.  A JSON   *)
(* object is a function from its keys to their values.  Of the keys of the   *)
(* vision answer, wear_pattern stands for those the prompt gives a default   *)
(* for (color, wear_pattern, sidewall_deformation, is_graining); compound is *)
(* the one the prompt tells the model to skip when the markings are unclear. *)

\* the laps of the remote store: 9 and 10, a one-digit and a two-digit name
LapNumbers == {8 + i : i \in 1 .. MaxLap}

\* tire['position']: one photographed position per lap, so that the keys of
\* the store are told apart by their laps
Positions == {"front_left"}

\* f"{n}": the decimal digits of a positive integer
RECURSIVE str(_)
str(n) == IF n < 10 THEN <<n>> ELSE Append(str(n \div 10), n % 10)

\* int(s) on a string of decimal digits
RECURSIVE int(_)
int(s) == IF Len(s) = 0 THEN 0 ELSE 10 * int(SubSeq(s, 1, Len(s) - 1)) + s[Len(s)]

\* the names the remote store gives the laps
LapNames == {str(n) : n \in LapNumbers}

\* tire['key'] and tire['position'] of the entries of tiresByLap
Keys == [lap : LapNames, position : Positions]

\* data.update(other)
Update(data, other) ==
  [k \in DOMAIN data \cup DOMAIN other |->
     IF k \in DOMAIN other THEN other[k] ELSE data[k]]

EmptyDict == [k \in {} |-> 0]

\* what analyze_tire_with_gemini can return: the answer with and without the
\* compound
AnalysisResults ==
  { [compound |-> "soft", wear_pattern |-> "even"],
    [wear_pattern |-> "even"] }

\* what track_specific_strategy returns: the text of the model's answer
track_strategy_text == "advice"

\* the keys reverse_engineer_meta_data reads with data[...] (lines 118-121)
ReverseReads == {"compound", "wear_pattern"}

\* reverse_engineer_meta_data(data, lap_number): data.update of lap_number and
\* of the three sensor values, each the outcome of the random draws
reverse_engineer_meta_data(data, lap_number) ==
  Update(data, [lap_number |-> lap_number, tyre_pressure |-> "drawn",
                tyre_temperature |-> "drawn", track_temperature |-> "drawn"])

\* the keys predict_strategy reads with tire_data[...] (lines 42-58)
PredictReads ==
  {"compound", "lap_number", "wear_pattern", "tyre_pressure",
   "tyre_temperature", "track_temperature"}

\* the labels model.predict answers with
PredictedLabels == {"PIT_NOW", "MONITOR"}

SensorKeys == {"tyre_pressure", "tyre_temperature", "track_temperature"}

\* the values of a JSON object under the given keys, for those it has
Restrict(data, ks) == [k \in DOMAIN data \cap ks |-> data[k]]

\* cron_job is not running; ended tells how its last invocation ended
CronIdle(ended) == [pc |-> "idle", todo |-> {}, ended |-> ended]

\* an exception leaves cron_job: nothing after the raising statement runs
CronRaised == CronIdle("raised")

\* cron_job up to the call of process_tire_images (lines 16-20)
cron_job ==
  IF fetch_lock
  THEN /\ cron' = CronIdle("skipped")
       /\ UNCHANGED fetch_lock
  ELSE /\ fetch_lock' = TRUE
       /\ cron' = [pc |-> "process", todo |-> DOMAIN tire_images, ended |-> "running"]

\* process_tire_images: one pass of its loop over the lap directories
ProcessLapDir ==
  /\ cron.pc = "process"
  /\ \E lap \in cron.todo :
       \/ \* the output file exists and has its track_strategy
          /\ lap \in DOMAIN output
          /\ "track_strategy" \in DOMAIN output[lap]
          /\ cron' = [cron EXCEPT !.todo = @ \ {lap}]
          /\ UNCHANGED output
          \* the output file exists: track_strategy is added if it is missing
       \/ /\ lap \in DOMAIN output
          /\ "track_strategy" \notin DOMAIN output[lap]
          /\ \/ /\ output' = [output EXCEPT ![lap] =
                              Update(@, [track_strategy |-> track_strategy_text])]
                /\ cron' = [cron EXCEPT !.todo = @ \ {lap}]
             \/ \* track_specific_strategy raises
                /\ cron' = CronRaised
                /\ UNCHANGED output
          \* no output file and no image in the directory: nothing is written
       \/ /\ lap \notin DOMAIN output
          /\ tire_images[lap] = {}
          /\ cron' = [cron EXCEPT !.todo = @ \ {lap}]
          /\ UNCHANGED output
          \* no output file: the first image is analysed
       \/ /\ lap \notin DOMAIN output
          /\ tire_images[lap] # {}
          /\ \/ \* analyze_tire_with_gemini raises
                /\ cron' = CronRaised
                /\ UNCHANGED output
             \/ \E analysis_result \in AnalysisResults :
                  \/ \* the analysis is saved, track_specific_strategy raises
                     /\ output' = Update(output, lap :> analysis_result)
                     /\ cron' = CronRaised
                  \/ /\ output' = Update(output, lap :>
                          Update(analysis_result,
                                 [track_strategy |-> track_strategy_text]))
                     /\ cron' = [cron EXCEPT !.todo = @ \ {lap}]
  /\ UNCHANGED <<fetch_lock, tire_images, collection, monitor>>
  /\ UNCHANGED notPipelineVars

\* process_tire_images returns; the loop over output/*.json begins
ProcessDone ==
  /\ cron.pc = "process"
  /\ cron.todo = {}
  /\ cron' = [cron EXCEPT !.pc = "infer", !.todo = DOMAIN output]
  /\ UNCHANGED <<fetch_lock, tire_images, output, collection, monitor>>
  /\ UNCHANGED notPipelineVars

\* variant: the file is labelled and rewritten on every run
strategy_missing_ignored(data) == TRUE

\* variant: the document is named by the last digit of the lap
document_id_last_digit(lap) == <<lap[Len(lap)]>>

\* variant: the key is marked as downloaded before its image is fetched
mark_downloaded_eagerly(downloaded_images, tire_key, written) ==
  downloaded_images \cup {tire_key}

\* the file is rewritten only under `if "strategy" not in data`
strategy_missing(data) == "strategy" \notin DOMAIN data

\* cron_job: one pass of its loop over the lap files (lines 24-44)
InferLap ==
  /\ cron.pc = "infer"
  /\ \E lap \in cron.todo :
       LET data == output[lap]
           lap_number == int(lap)
       IN \/ \* reverse_engineer_meta_data raises KeyError
             /\ "tyre_pressure" \notin DOMAIN data
             /\ ~(ReverseReads \subseteq DOMAIN data)
             /\ cron' = CronRaised
             /\ UNCHANGED output
          \/ \E result \in {IF "tyre_pressure" \notin DOMAIN data
                            THEN reverse_engineer_meta_data(data, lap_number)
                            ELSE data} :
                 /\ "tyre_pressure" \in DOMAIN data \/ ReverseReads \subseteq DOMAIN data
                 /\ IF strategy_missing(result)
                    THEN IF PredictReads \subseteq DOMAIN result
                         THEN \E strategy \in PredictedLabels :
                                /\ output' = [output EXCEPT ![lap] =
                                     Update(result, [strategy |-> strategy])]
                                /\ cron' = [cron EXCEPT !.todo = @ \ {lap}]
                         ELSE \* predict_strategy raises KeyError
                              /\ cron' = CronRaised
                              /\ UNCHANGED output
                    ELSE /\ cron' = [cron EXCEPT !.todo = @ \ {lap}]
                         /\ UNCHANGED output
  /\ UNCHANGED <<fetch_lock, tire_images, collection, monitor>>
  /\ UNCHANGED notPipelineVars

\* the documents of the collection are deleted (lines 45-48)
InferenceDone ==
  /\ cron.pc = "infer"
  /\ cron.todo = {}
  /\ \/ /\ collection' = EmptyDict
        /\ cron' = [cron EXCEPT !.pc = "sync", !.todo = DOMAIN output]
     \/ \* a delete raises: the documents not yet deleted stay
        \E kept \in (SUBSET DOMAIN collection) \ {{}} :
          /\ collection' = Restrict(collection, kept)
          /\ cron' = CronRaised
  /\ UNCHANGED <<fetch_lock, tire_images, output, monitor>>
  /\ UNCHANGED notPipelineVars

\* the id of the document of a lap file: f"lap_{int(stem.split('_')[1])}"
document_id(lap) == str(int(lap))

\* cron_job: one pass of its second loop over the lap files (lines 49-53)
SyncLap ==
  /\ cron.pc = "sync"
  /\ \E lap \in cron.todo :
       \/ /\ collection' = Update(collection, document_id(lap) :> output[lap])
          /\ cron' = [cron EXCEPT !.todo = @ \ {lap}]
       \/ \* set raises
          /\ cron' = CronRaised
          /\ UNCHANGED collection
  /\ UNCHANGED <<fetch_lock, tire_images, output, monitor>>
  /\ UNCHANGED notPipelineVars

\* the last statement of cron_job (line 54)
CronReturn ==
  /\ cron.pc = "sync"
  /\ cron.todo = {}
  /\ fetch_lock' = FALSE
  /\ cron' = CronIdle("returned")
  /\ UNCHANGED <<tire_images, output, collection, monitor>>
  /\ UNCHANGED notPipelineVars

\* TireImageMonitor.get_new_images: the listed entries whose key is not in
\* downloaded_images; [] when the listing fails or is empty
get_new_images(all_tires, downloaded_images) ==
  {tire \in all_tires : tire \notin downloaded_images}

\* download_image marks the key only after the image is on disk (line 111)
mark_downloaded(downloaded_images, tire_key, written) ==
  IF written THEN downloaded_images \cup {tire_key} ELSE downloaded_images

\* a monitor just constructed, with no download history on disk
NewMonitor ==
  [pc |-> "idle", listed |-> {}, new_images |-> {}, queue |-> {},
   downloaded_images |-> {}, history |-> {}, failed |-> {}]

\* run_once up to its loop: the listing of the remote store is all_tires, or
\* the request fails and list_all_tires returns None
Poll ==
  /\ monitor.pc = "idle"
  /\ cron.pc = "idle"
  /\ \E ok \in BOOLEAN, all_tires \in SUBSET Keys :
       \E listed \in {IF ok THEN all_tires ELSE {}} :
         \E new_images \in {get_new_images(listed, monitor.downloaded_images)} :
           /\ ok \/ all_tires = {}
           /\ monitor' = [monitor EXCEPT
                !.listed = listed,
                !.new_images = new_images,
                !.queue = new_images,
                !.pc = IF new_images = {} THEN "idle" ELSE "downloading"]
  /\ UNCHANGED <<fetch_lock, cron, tire_images, output, collection>>
  /\ UNCHANGED notPipelineVars

\* download_image for one entry of new_images
DownloadImage ==
  /\ monitor.pc = "downloading"
  /\ \E tire \in monitor.queue, written \in BOOLEAN :
       \* os.makedirs(lap_dir, exist_ok=True)
       \E lap_dir \in {IF tire.lap \in DOMAIN tire_images
                       THEN tire_images[tire.lap] ELSE {}} :
         /\ tire_images' = Update(tire_images, tire.lap :>
              (IF written THEN lap_dir \cup {tire.position} ELSE lap_dir))
         /\ monitor' = [monitor EXCEPT
              !.queue = @ \ {tire},
              !.downloaded_images = mark_downloaded(@, tire, written),
              !.failed = IF written THEN @ \ {tire} ELSE @ \cup {tire}]
  /\ UNCHANGED <<fetch_lock, cron, output, collection>>
  /\ UNCHANGED notPipelineVars

\* run_once after its loop: save_download_history, then cron_job
RunCronJob ==
  /\ monitor.pc = "downloading"
  /\ monitor.queue = {}
  /\ \E saved \in BOOLEAN :
       monitor' = [monitor EXCEPT
         !.pc = "idle",
         !.listed = {},
         !.new_images = {},
         !.history = IF saved THEN monitor.downloaded_images ELSE @]
  /\ cron_job
  /\ UNCHANGED <<tire_images, output, collection>>
  /\ UNCHANGED notPipelineVars

\* the lap files a run can find in the directory output
InitialFiles ==
  LET vision == [compound |-> "soft", wear_pattern |-> "even"]
      advised == Update(vision, [track_strategy |-> track_strategy_text])
      sensed(lap) == reverse_engineer_meta_data(advised, int(lap))
  IN [lap \in LapNames |->
        { advised,
          Update(advised, [strategy |-> "MONITOR"]),
          Update(advised, [tyre_pressure |-> "drawn"]),
          Update(sensed(lap), [strategy |-> "MONITOR"]) }]

\* what the collection can hold before a run: nothing, or a document of an
\* earlier run
InitialDocuments ==
  {EmptyDict, str(9) :> [wear_pattern |-> "even"]}

PipelineFresh ==
  /\ fetch_lock = FALSE
  /\ cron = CronIdle("none")
  /\ tire_images = EmptyDict
  /\ monitor = NewMonitor

\* the pipeline is not part of the behaviour
PipelineIdle ==
  /\ PipelineFresh
  /\ output = EmptyDict
  /\ collection = EmptyDict

----------------------------------------------------------------------------
(* State machine: one call of the rule engine per behaviour *)

\* nothing has called the rule engine or the generator yet
RuleIdle ==
  /\ pc = "idle"
  /\ args = NoCall
  /\ outcome = "none"
  /\ stored = NoEdgeCase
  /\ sample = NoSample
  /\ locals = NoLocals

Init ==
  /\ RuleIdle
  /\ DerivedIdle
  /\ ReverseIdle
  /\ DatasetIdle
  /\ PipelineIdle

\* _determine_strategy on a complete record over the declared domains
Classify ==
  /\ pc = "idle"
  /\ \E c \in CompoundNames, w \in WearPatternNames, d \in BOOLEAN, g \in BOOLEAN :
       \E lap \in LapGrid(c), p \in PressureGrid,
          t \in TyreTempGrid(c), tr \in TrackTempGrid :
         LET r == [compound |-> c, lap_number |-> lap, wear_pattern |-> w,
                   sidewall_deformation |-> d, tyre_pressure |-> p,
                   is_graining |-> g, tyre_temperature |-> t,
                   track_temperature |-> tr]
             a == CallArgs(r, compounds[c])
         IN /\ args' = a
            /\ outcome' = DetermineStrategy(a)
  /\ pc' = "classified"
  /\ stored' = NoEdgeCase
  /\ UNCHANGED <<sample, locals>>
  /\ UNCHANGED notRuleVars

\* _determine_strategy on one of the records of generate_edge_cases
ClassifyEdgeCase ==
  /\ pc = "idle"
  /\ \E i \in DOMAIN generate_edge_cases :
       LET e == generate_edge_cases[i]
           a == CallArgs(TireStateOf(e), compounds[e.compound])
       IN /\ args' = a
          /\ outcome' = DetermineStrategy(a)
          /\ stored' = [strategy |-> e.strategy, scenario_name |-> e.scenario_name]
  /\ pc' = "edge_case"
  /\ UNCHANGED <<sample, locals>>
  /\ UNCHANGED notRuleVars

\* _determine_strategy with a compound or a wear pattern outside the enums;
\* the caller supplies the life and the optimal range of some registry entry
ClassifyUnrecognized ==
  /\ pc = "idle"
  /\ \E i \in DOMAIN generate_edge_cases, viaEntry \in CompoundNames :
       \E c \in UnknownCompounds \cup {generate_edge_cases[i].compound},
          w \in UnknownWearPatterns \cup {generate_edge_cases[i].wear_pattern} :
         LET e == TireStateOf(generate_edge_cases[i])
             r == [e EXCEPT !.compound = c, !.wear_pattern = w]
             a == CallArgs(r, compounds[viaEntry])
         IN /\ c \in UnknownCompounds \/ w \in UnknownWearPatterns
            /\ c \in CompoundNames => viaEntry = c
            /\ args' = a
            /\ outcome' = DetermineStrategy(a)
  /\ pc' = "unrecognized"
  /\ stored' = NoEdgeCase
  /\ UNCHANGED <<sample, locals>>
  /\ UNCHANGED notRuleVars

\* _determine_strategy on a record that lacks some of its fields
ClassifyIncomplete ==
  /\ pc = "idle"
  /\ \E i \in DOMAIN generate_edge_cases, viaEntry \in CompoundNames :
       \E missing \in SUBSET RecordFields :
         LET r == Drop(TireStateOf(generate_edge_cases[i]), missing)
             a == CallArgs(r, compounds[viaEntry])
         IN /\ missing # {}
            /\ Cardinality(missing) <= MaxMissing
            /\ "compound" \in DOMAIN r => viaEntry = r.compound
            /\ args' = a
            /\ outcome' = DetermineStrategy(a)
  /\ pc' = "incomplete"
  /\ stored' = NoEdgeCase
  /\ UNCHANGED <<sample, locals>>
  /\ UNCHANGED notRuleVars

\* _determine_strategy on a record whose lap_number is zero or negative
ClassifyOutOfRange ==
  /\ pc = "idle"
  /\ \E i \in DOMAIN generate_edge_cases, lap \in (0 - LapOver) .. 0 :
       LET e == TireStateOf(generate_edge_cases[i])
           r == [e EXCEPT !.lap_number = lap]
           a == CallArgs(r, compounds[e.compound])
       IN /\ args' = a
          /\ outcome' = DetermineStrategy(a)
  /\ pc' = "out_of_range"
  /\ stored' = NoEdgeCase
  /\ UNCHANGED <<sample, locals>>
  /\ UNCHANGED notRuleVars

Next ==
  \/ ClassifyOutOfRange
  \/ ClassifyEdgeCase
  \/ ClassifyUnrecognized
  \/ ClassifyIncomplete
  \/ GenerateSample
  \/ Classify

Spec == Init /\ [][Next]_vars

\* the derived features on their own: a frame is built, augmented twice,
\* served record by record and derived again by the training script
InitDerived ==
  /\ RuleIdle
  /\ DerivedIdle
  /\ ReverseIdle
  /\ DatasetIdle
  /\ PipelineIdle

NextDerived ==
  \/ (LoadFrame /\ UNCHANGED notDerivedVars)
  \/ (AddDerived /\ UNCHANGED notDerivedVars)
  \/ (Predict /\ UNCHANGED notDerivedVars)
  \/ (Train /\ UNCHANGED notDerivedVars)

SpecDerived == InitDerived /\ [][NextDerived]_vars

\* reverse_engineer_meta_data on its own
InitReverse ==
  /\ RuleIdle
  /\ DerivedIdle
  /\ ReverseIdle
  /\ DatasetIdle
  /\ PipelineIdle

NextReverse == ReverseEngineer

SpecReverse == InitReverse /\ [][NextReverse]_vars

\* the image monitor polling, each cycle that finds images calling cron_job
InitPipeline ==
  /\ RuleIdle
  /\ DerivedIdle
  /\ ReverseIdle
  /\ DatasetIdle
  /\ PipelineFresh
  /\ \E names \in SUBSET LapNames :
       output \in [names -> UNION {InitialFiles[lap] : lap \in LapNames}]
  /\ \A lap \in DOMAIN output : output[lap] \in InitialFiles[lap]
  /\ collection \in InitialDocuments

NextPipeline ==
  \/ Poll
  \/ DownloadImage
  \/ RunCronJob
  \/ ProcessLapDir
  \/ ProcessDone
  \/ InferLap
  \/ InferenceDone
  \/ SyncLap
  \/ CronReturn

SpecPipeline == InitPipeline /\ [][NextPipeline]_vars

\* two runs of the generation script, each in a process of its own
InitDataset ==
  /\ RuleIdle
  /\ DerivedIdle
  /\ ReverseIdle
  /\ PipelineIdle
  /\ gen \in [Runs -> {NewRun(rs) : rs \in Unseeded}]

NextDataset ==
  \/ \E r \in Runs : Construct(r) /\ UNCHANGED notDatasetVars
  \/ \E r \in Runs : GenerateDataset(r) /\ UNCHANGED notDatasetVars

SpecDataset == InitDataset /\ [][NextDataset]_vars

----------------------------------------------------------------------------
(* Properties *)

Params ==
  {"compound", "lap_num", "expected_life", "wear_pattern", "deformation",
   "pressure", "graining", "tyre_temp", "track_temp", "opt_temp_min",
   "opt_temp_max"}

\* the call carries every field of a TireState
Complete(a) == DOMAIN a = Params

\* the call is on a complete TireState over the declared domains
Declared == pc \in {"classified", "edge_case", "sample"}

\* C1: a complete TireState with sidewall_deformation = true is labelled
\* PIT_NOW, whatever its other fields are, and so every sample the generator
\* returns with sidewall_deformation = true carries the label PIT_NOW.
C1_DeformationPitNow ==
  /\ (Complete(args) /\ args.deformation) => outcome = "PIT_NOW"
  /\ (pc = "sample" /\ sample.sidewall_deformation) => sample.strategy = "PIT_NOW"

\* a generated sample with a deformed tyre that no other PIT_NOW rule covers
C1_Witness ==
  /\ pc = "sample"
  /\ sample.sidewall_deformation
  /\ sample.tyre_pressure \in 170 .. 240
  /\ sample.lap_number * 100 < 80 * compounds[sample.compound].expected_life
  /\ args.deformation
  /\ sample.strategy = "PIT_NOW"

\* C2: a complete TireState with tyre_pressure < 17 or > 24 is labelled
\* PIT_NOW whatever its other fields are, and a pressure of exactly 17 or
\* exactly 24 does not trigger the rule: such a record that no other PIT_NOW
\* rule covers is not labelled PIT_NOW.
C2_PressurePitNow ==
  /\ (Complete(args) /\ (args.pressure < 170 \/ args.pressure > 240))
        => outcome = "PIT_NOW"
  /\ (/\ Complete(args)
      /\ args.pressure \in {170, 240}
      /\ ~args.deformation
      /\ args.lap_num < args.expected_life
      /\ ~(args.wear_pattern = "uneven"
           /\ args.lap_num * 100 > 80 * args.expected_life))
        => outcome # "PIT_NOW"

\* an over-inflated tyre that no other PIT_NOW rule covers
C2_Witness ==
  /\ pc = "classified"
  /\ args.pressure = 241
  /\ ~args.deformation
  /\ args.wear_pattern = "even"
  /\ args.lap_num = 1
  /\ outcome = "PIT_NOW"

\* C3: a complete TireState with lap_number / expected_life >= 1.0, the lap
\* equal to the expected life included, is labelled PIT_NOW.
C3_WornOutPitNow ==
  (Complete(args) /\ args.lap_num >= args.expected_life) => outcome = "PIT_NOW"

\* a tyre exactly at its expected life that no other PIT_NOW rule covers
C3_Witness ==
  /\ pc = "classified"
  /\ args.lap_num = args.expected_life
  /\ ~args.deformation
  /\ args.pressure = 190
  /\ args.wear_pattern = "even"
  /\ outcome = "PIT_NOW"

\* C4: on every complete TireState over the declared domains the rule engine
\* returns a label, and the label is one of the five strategies.
C4_TotalOverDeclaredDomains ==
  Declared => outcome \in Strategies

\* a record that falls through every guard and gets the default
C4_Witness ==
  /\ pc = "classified"
  /\ outcome = "MONITOR"
  /\ args.compound = "wet"
  /\ args.wear_pattern = "inner"

\* The ordered guards of the rule engine as the specification lists them
\* (section 4.3), over a complete record.
SpecWearTimes100(a) == a.lap_num * 100

SpecGuard(i, a) ==
  LET lp100 == SpecWearTimes100(a)
      life == a.expected_life
  IN CASE i = 1 -> a.deformation
       [] i = 2 -> a.pressure < 170 \/ a.pressure > 240
       [] i = 3 -> lp100 >= 100 * life
       [] i = 4 -> a.wear_pattern = "uneven" /\ lp100 > 80 * life
       [] i = 5 -> lp100 >= 85 * life
       [] i = 6 -> a.tyre_temp > compounds[a.compound].optimal_temp_range[2] + 15
       [] i = 7 -> a.graining /\ a.compound = "soft" /\ a.lap_num > 15
       [] i = 8 -> a.wear_pattern \in {"center", "inner", "outer"}
                    /\ lp100 > 75 * life
       [] i = 9 -> /\ lp100 < 60 * life
                   /\ a.wear_pattern = "even"
                   /\ a.tyre_temp >= compounds[a.compound].optimal_temp_range[1]
                   /\ a.tyre_temp <= compounds[a.compound].optimal_temp_range[2]
                   /\ ~a.graining
                   /\ a.pressure >= 190 /\ a.pressure <= 215
       [] i = 10 -> 70 * life < lp100 /\ lp100 < 85 * life
       [] i = 11 -> a.track_temp > 40
       [] i = 12 -> a.graining /\ a.lap_num < 12
       [] i = 13 -> TRUE

SpecLabel ==
  <<"PIT_NOW", "PIT_NOW", "PIT_NOW", "PIT_NOW",
    "PIT_SOON", "PIT_SOON", "PIT_SOON", "PIT_SOON",
    "PUSH", "CONSERVE", "CONSERVE", "CONSERVE", "MONITOR">>

SpecFirstMatch(a) ==
  CHOOSE i \in 1 .. 13 : SpecGuard(i, a) /\ \A j \in 1 .. (i - 1) : ~SpecGuard(j, a)

\* C5: on every complete TireState over the declared domains the label of
\* _determine_strategy is the label of the lowest-numbered guard of section
\* 4.3 that holds, each comparison strict or non-strict as listed there.
C5_FirstMatchOfSpecGuards ==
  Declared => outcome = SpecLabel[SpecFirstMatch(args)]

\* lap_percentage exactly 0.60 on an otherwise perfect tyre: rule 9 is strict
\* and the record falls to the default
C5_Witness ==
  /\ pc = "classified"
  /\ args.compound = "hard"
  /\ args.lap_num = 27
  /\ args.wear_pattern = "even"
  /\ args.tyre_temp = 105
  /\ args.pressure = 190
  /\ ~args.graining
  /\ ~args.deformation
  /\ args.track_temp = 40
  /\ outcome = "MONITOR"

\* The predicates of rule 4 and rule 9 on the same record (C6): no record
\* satisfies both, a wear pattern being one value and a ratio one number.
Rule4AndRule9(a) == Complete(a) /\ SpecGuard(4, a) /\ SpecGuard(9, a)

NoRecordMeetsRule4AndRule9 == ~Rule4AndRule9(args)

\* C7: the rule engine on the edge case Monaco_rain_start (intermediate, lap
\* 3, even, no deformation, 19.5 psi, no graining, 88 C, track 18 C) returns
\* MONITOR, the label stored with the record.
C7_MonacoRainStartMonitor ==
  (pc = "edge_case" /\ stored.scenario_name = "Monaco_rain_start")
    => (outcome = "MONITOR" /\ outcome = stored.strategy)

\* the labels C8 lists for the other five edge cases
C8_Listed ==
  [Silverstone_blowout_risk |-> "PIT_NOW",
   Singapore_overheating |-> "PIT_SOON",
   Barcelona_cold_graining |-> "CONSERVE",
   Perfect_push_conditions |-> "PUSH",
   Critical_sidewall_deformation |-> "PIT_NOW"]

\* C8: on each of the edge cases (b) to (f) the rule engine returns the label
\* stored with the record, which is the label the claim lists.
C8_EdgeCasesKeepTheirLabel ==
  (pc = "edge_case" /\ stored.scenario_name \in DOMAIN C8_Listed)
    => /\ outcome = stored.strategy
       /\ outcome = C8_Listed[stored.scenario_name]

\* edge case (d) classified
C8_Witness ==
  /\ pc = "edge_case"
  /\ stored.scenario_name = "Barcelona_cold_graining"
  /\ args.lap_num = 6
  /\ outcome = "CONSERVE"

\* C9: a call with a compound or a wear pattern outside the declared enums
\* ends in an error and returns no strategy label.
C9_UnrecognizedIsAnError ==
  pc = "unrecognized" => outcome \notin Strategies

\* C10: a call on a record that lacks a required field ends in an error and
\* returns no strategy label, also when a field that is present already
\* satisfies an earlier rule.
C10_IncompleteIsAnError ==
  pc = "incomplete" => outcome \notin Strategies

----------------------------------------------------------------------------
(* Properties of the derived features (SpecDerived) *)

FracEq(x, y) == x.num * y.den = y.num * x.den

\* two sets of derived values are the same values
SameDerived(x, y) ==
  /\ x.expected_life = y.expected_life
  /\ FracEq(x.lap_percentage, y.lap_percentage)
  /\ x.temp_differential = y.temp_differential
  /\ x.is_pressure_optimal = y.is_pressure_optimal
  /\ x.is_temp_optimal = y.is_temp_optimal
  /\ x.wear_severity = y.wear_severity
  /\ FracEq(x.risk_score, y.risk_score)

\* the tables and the formula of section 4.5 of the specification
Spec45Life == [soft |-> 22, medium |-> 32, hard |-> 45, intermediate |-> 15, wet |-> 10]

Spec45Severity == [even |-> 0, inner |-> 2, outer |-> 2, center |-> 3, uneven |-> 4]

Spec45(r) ==
  LET life == Spec45Life[r.compound]
      po == r.tyre_pressure >= 190 /\ r.tyre_pressure <= 215
      to == r.tyre_temperature >= 95 /\ r.tyre_temperature <= 115
      ws == Spec45Severity[r.wear_pattern]
  IN [expected_life |-> life,
      lap_percentage |-> Frac(r.lap_number, life),
      temp_differential |-> r.tyre_temperature - r.track_temperature,
      is_pressure_optimal |-> po,
      is_temp_optimal |-> to,
      wear_severity |-> ws,
      risk_score |->
        Frac(r.lap_number * 40
               + life * (ws * 10 + Int01(r.sidewall_deformation) * 50
                           + Int01(r.is_graining) * 15 + Int01(~po) * 10
                           + Int01(~to) * 5),
             life)]

\* C11: on every raw TireState over the declared domains the derived values
\* of _add_derived_features (batch), of predict_strategy (one record) and of
\* the edge-case section of train_model.py are the same, and are those of the
\* formula and the tables of section 4.5.
C11_DerivedFeaturesAgree ==
  /\ dpc \in {"augmented", "augmented_again", "served", "trained"}
       => \A i \in DOMAIN df : SameDerived(DerivedOf(df[i]), Spec45(df[i]))
  /\ dpc \in {"served", "trained"}
       => \A i \in DOMAIN df : SameDerived(serving[i], DerivedOf(df[i]))
  /\ dpc = "trained"
       => \A i \in DOMAIN df : SameDerived(DerivedOf(trained[i]), DerivedOf(df[i]))

\* the batch of the six edge cases, derived three ways
C11_Witness ==
  /\ dpc = "trained"
  /\ Len(df) = 6
  /\ serving[3].wear_severity = 3
  /\ trained[3].expected_life = 32
  /\ df[3].risk_score.num = 40 * 28 + 32 * 45

\* C12: _add_derived_features applied to a frame it has already augmented
\* changes no derived value and no raw field.
C12_AddDerivedIdempotent ==
  [][(dpc = "augmented" /\ dpc' = "augmented_again") => df' = df]_vars

\* a frame that went through _add_derived_features twice
C12_Witness ==
  /\ dpc = "augmented_again"
  /\ Len(df) = 6
  /\ df[4].is_graining
  /\ df[4].risk_score.num = 40 * 6 + 22 * 60

\* C14: a record whose lap_number is zero or negative is rejected: the rule
\* engine produces no strategy label from it.
C14_NonPositiveLapIsAnError ==
  pc = "out_of_range" => outcome \notin Strategies

----------------------------------------------------------------------------
(* reverse_engineer_meta_data *)

Returned == rpc = "returned"

\* the three values the inference adds to the record
SensorFields == {"tyre_pressure", "tyre_temperature", "track_temperature"}

\* the optimal range the registry declares for the compound of the call, and
\* the one the inference falls back on for a compound the registry lacks
DeclaredOptimal ==
  IF rin.data.compound \in CompoundNames
  THEN compounds[rin.data.compound].optimal_temp_range
  ELSE <<rloc.optimal_min, rloc.optimal_max>>

\* C13: a lookup by a compound outside the declared enum ends in an error and
\* substitutes no default: reverse_engineer_meta_data called with such a
\* compound returns no sensor value.
C13_UnknownCompoundIsAnError ==
  (Returned /\ rin.data.compound \notin CompoundNames)
    => SensorFields \cap DOMAIN rout = {}

\* C15: whatever the input and the draws, the tyre_pressure that
\* reverse_engineer_meta_data returns is between 15.0 and 25.0 psi and has
\* exactly one decimal (here: a multiple of ten hundredths).
C15_PressureClampedOneDecimal ==
  Returned => /\ 1500 <= rout.tyre_pressure
              /\ rout.tyre_pressure <= 2500
              /\ rout.tyre_pressure % 10 = 0

\* the sum was halfway between two tenths and above 25 psi: it was rounded,
\* then clamped
C15_Witness ==
  /\ Returned
  /\ ~rin.data.sidewall_deformation
  /\ (rloc.drawn_pressure + (rout.tyre_temperature - 100) * 5) % 10 = 5
  /\ rloc.drawn_pressure + (rout.tyre_temperature - 100) * 5 > 2500
  /\ rout.tyre_pressure = 2500

\* C16: with a recognised compound and a wear pattern outside the enum, the
\* call returns the three sensor values; the tyre temperature is first drawn
\* from [optimal_min, optimal_max] when the tyre is not graining, and the
\* pressure from [19.0, 21.5] when the sidewall is not deformed.
C16_UnknownWearPatternDefaultBands ==
  (Returned /\ rin.data.compound \in CompoundNames
            /\ rin.data.wear_pattern \notin WearPatternNames)
    => /\ SensorFields \subseteq DOMAIN rout
       /\ ~rin.data.is_graining
            => /\ 2 * DeclaredOptimal[1] <= rloc.drawn_temp
               /\ rloc.drawn_temp <= 2 * DeclaredOptimal[2]
       /\ ~rin.data.sidewall_deformation
            => /\ 1900 <= rloc.drawn_pressure
               /\ rloc.drawn_pressure <= 2150

C16_Witness ==
  /\ Returned
  /\ rin.data.compound = "hard"
  /\ rin.data.wear_pattern \in UnknownWearPatterns
  /\ ~rin.data.is_graining
  /\ ~rin.data.sidewall_deformation
  /\ rloc.drawn_temp = 2 * 115
  /\ rloc.drawn_pressure = 2150
  /\ SensorFields \subseteq DOMAIN rout

\* C17: when the sidewall is deformed, the tyre_temperature returned is at
\* least optimal_max + 15 for the compound, after truncation to an integer.
C17_DeformationAtLeastOptimalMaxPlus15 ==
  (Returned /\ rin.data.sidewall_deformation)
    => rout.tyre_temperature >= DeclaredOptimal[2] + 15

\* a graining tyre, drawn cold, raised to optimal_max + 15 by the deformation
C17_Witness ==
  /\ Returned
  /\ rin.data.sidewall_deformation
  /\ rin.data.is_graining
  /\ rin.data.compound = "wet"
  /\ rloc.drawn_temp < 2 * 75
  /\ rout.tyre_temperature = 85 + 15

\* C18: a graining tyre whose sidewall is not deformed gets, on any positive
\* lap, a tyre_temperature below the optimal_min of its compound.
C18_GrainingBelowOptimalMin ==
  (Returned /\ rin.data.is_graining /\ ~rin.data.sidewall_deformation
            /\ rin.lap_number > 0)
    => rout.tyre_temperature < DeclaredOptimal[1]

----------------------------------------------------------------------------
(* generate_dataset *)

\* C19: two runs that construct the generator with the same seed and call
\* generate_dataset with the same n return the same sequence of records,
\* whatever the streams held before the generator was constructed.
C19_SameSeedSameDataset ==
  \A r1 \in Runs, r2 \in Runs :
    (/\ gen[r1].pc = "returned"
     /\ gen[r2].pc = "returned"
     /\ gen[r1].seed = gen[r2].seed
     /\ gen[r1].n_samples = gen[r2].n_samples)
      => /\ gen[r1].df = gen[r2].df
         /\ gen[r1].random_state = gen[r2].random_state
         /\ gen[r1].np_state = gen[r2].np_state

\* two runs from different stream states, same seed, two unlike records each
C19_Witness ==
  /\ gen[1].pc = "returned"
  /\ gen[2].pc = "returned"
  /\ gen[1].unseeded # gen[2].unseeded
  /\ gen[1].seed = gen[2].seed
  /\ gen[1].n_samples = MaxSamples
  /\ gen[2].n_samples = MaxSamples
  /\ gen[1].df[1].compound # gen[1].df[2].compound
  /\ gen[1].df = gen[2].df

\* the TireState a row of the returned frame holds
RowState(row) == [f \in RecordFields |-> row[f]]

\* C20: every record generate_dataset returns has as strategy the label the
\* rule engine gives to the record's own fields, as lap_percentage the wear
\* percentage lap_number / expected_life the rule engine was called with, and
\* every field as it was when the label was computed.
C20_RecordsCarryGroundTruth ==
  \A r \in Runs :
    gen[r].pc = "returned" =>
      \A i \in DOMAIN gen[r].df :
        LET row == gen[r].df[i]
            a == CallArgs(RowState(row), compounds[row.compound])
        IN /\ row.strategy = DetermineStrategy(a)
           /\ row.strategy \in Strategies
           /\ gen[r].calls[i] = a
           /\ FracEq(row.lap_percentage,
                     Frac(gen[r].calls[i].lap_num, gen[r].calls[i].expected_life))
           /\ RawOf(row) = gen[r].data[i]

\* a returned frame with a medium tyre past its first laps whose label is
\* not the default
C20_Witness ==
  /\ gen[1].pc = "returned"
  /\ Len(gen[1].df) = MaxSamples
  /\ \E i \in DOMAIN gen[1].df :
       /\ gen[1].df[i].compound = "medium"
       /\ gen[1].df[i].lap_number > 1
       /\ gen[1].df[i].strategy # "MONITOR"
       /\ gen[1].df[i].lap_percentage.den = 32

----------------------------------------------------------------------------
(* The generator, sample by sample *)

\* C21: the probability of the sidewall_deformation draw is 0.25 when
\* lap_percentage >= 1.0, the lap equal to the expected life included;
\* otherwise 0.08 when lap_percentage > 0.9; otherwise 0.15 when the pressure
\* is below 17 or above 24; otherwise 0.01.
C21_DeformationProbability ==
  pc = "sample" =>
    LET life == compounds[sample.compound].expected_life
    IN locals.deformation_prob =
         IF sample.lap_number * 100 >= 100 * life THEN 25
         ELSE IF sample.lap_number * 100 > 90 * life THEN 8
         ELSE IF sample.tyre_pressure < 170 \/ sample.tyre_pressure > 240 THEN 15
         ELSE 1

----------------------------------------------------------------------------
(* The rule engine, band by band *)

\* a classified record with even wear and 0.60 < lap_percentage <= 0.70 that
\* none of the guards 1 to 8 of section 4.3 holds on
EvenMidBand ==
  /\ Declared
  /\ args.wear_pattern = "even"
  /\ args.lap_num * 100 > 60 * args.expected_life
  /\ args.lap_num * 100 <= 70 * args.expected_life
  /\ \A i \in 1 .. 8 : ~SpecGuard(i, args)

\* C22 as stated: a complete record with even wear and
\* 0.60 < lap_percentage <= 0.70 that matches none of the rules 1 to 8 is
\* classified MONITOR.
C22_EvenMidBandMonitor ==
  EvenMidBand => outcome = "MONITOR"

\* C22, amended: such a record is classified MONITOR when moreover the track
\* is at most 40 degrees and the tyre is not graining before lap 12;
\* otherwise rule 11 or rule 12 labels it CONSERVE.
C22_EvenMidBandMonitorOrConserve ==
  EvenMidBand =>
    outcome = IF args.track_temp > 40 \/ (args.graining /\ args.lap_num < 12)
              THEN "CONSERVE" ELSE "MONITOR"

\* a record of the band on a track of exactly 40 degrees: MONITOR
C22_Witness ==
  /\ EvenMidBand
  /\ pc = "classified"
  /\ args.track_temp = 40
  /\ ~args.graining
  /\ args.compound = "medium"
  /\ outcome = "MONITOR"

----------------------------------------------------------------------------
(* What the generator can and cannot produce *)

\* C23: every sample of the generator has tyre_temperature >=
\* track_temperature, so that temp_differential is never negative.
C23_TyreNotCoolerThanTrack ==
  pc = "sample" => sample.tyre_temperature >= sample.track_temperature

\* C24: each of the five strategy labels is the label of some sample the
\* generator can produce: before a sample is generated, for every label
\* there is a scenario, a compound and an outcome of the draws that give it.
C24_EveryLabelGenerated ==
  pc = "idle" => \A s \in Strategies : ENABLED (GenerateSample /\ outcome' = s)

\* C25: no guard of the rule engine is dead: for each of the 13 rules some
\* complete record over the declared domains has that rule as the first one
\* whose condition holds, and gets that rule's label.
\* (the records are those Classify draws)
C25_NoDeadRule ==
  pc = "idle" =>
    \A i \in 1 .. RuleCount :
      \E c \in CompoundNames, w \in WearPatternNames, d \in BOOLEAN, g \in BOOLEAN :
        \E lap \in LapGrid(c), p \in PressureGrid,
           t \in TyreTempGrid(c), tr \in TrackTempGrid :
          \E a \in {CallArgs([compound |-> c, lap_number |-> lap, wear_pattern |-> w,
                              sidewall_deformation |-> d, tyre_pressure |-> p,
                              is_graining |-> g, tyre_temperature |-> t,
                              track_temperature |-> tr], compounds[c])} :
            FirstRule(a) = i /\ DetermineStrategy(a) = SpecLabel[i]

\* the order decides: rule 7 returns on a record on which rules 10 and 12 of
\* the later CONSERVE group hold too
C25_Witness ==
  /\ pc = "classified"
  /\ FirstRule(args) = 7
  /\ conserve_wear(args)
  /\ conserve_track(args)
  /\ outcome = "PIT_SOON"

----------------------------------------------------------------------------
(* The serving pipeline *)

\* no cron_job is executing: none was called, or the last one has ended
CronEnded == cron.pc = "idle"

\* the last cron_job ran to its last statement
CronCompleted == cron.pc = "idle" /\ cron.ended = "returned"

LabelledKeys == SensorKeys \cup {"strategy"}

\* C26: fetch_lock is true only while a cron_job invocation is executing:
\* whenever none is executing, however the last one ended, fetch_lock is false.
C26_LockReleasedWhenEnded == CronEnded => ~fetch_lock

\* C27: once a lap file contains a strategy, no step of a later cron_job run
\* (process_tire_images included) removes the file or changes its strategy,
\* tyre_pressure, tyre_temperature or track_temperature.
C27_LabelledFileKept ==
  [][\A lap \in DOMAIN output :
       "strategy" \in DOMAIN output[lap] =>
         /\ lap \in DOMAIN output'
         /\ Restrict(output'[lap], LabelledKeys) = Restrict(output[lap], LabelledKeys)]_vars

\* a run has passed over a labelled file that has no sensor values and has
\* given it its track_strategy: the values reverse engineering computed for it
\* were not written
C27_Witness ==
  /\ CronCompleted
  /\ \E lap \in DOMAIN output :
       /\ DOMAIN output[lap] \cap LabelledKeys = {"strategy"}
       /\ "track_strategy" \in DOMAIN output[lap]
       /\ lap \in DOMAIN tire_images

\* C28: after a cron_job run that completes normally every lap file contains
\* tyre_pressure, tyre_temperature, track_temperature and strategy, whatever
\* subset of these keys it held before the run.
C28_FilesCompleteAfterRun ==
  CronCompleted => \A lap \in DOMAIN output : LabelledKeys \subseteq DOMAIN output[lap]

\* C29: after a cron_job run that completes normally the collection holds
\* exactly one document lap_N for every output file lap_N.json, with the
\* contents of the file, and no other document.  (The files are named by the
\* laps of the store, decimal numbers without leading zeros; the document id
\* is computed from the file name by int and the f-string.)
C29_CollectionMirrorsOutput ==
  CronCompleted =>
    /\ DOMAIN collection = DOMAIN output
    /\ \A lap \in DOMAIN output : collection[lap] = output[lap]

\* both laps have a file and a document after a completed run, one of the
\* files written by this run
C29_Witness ==
  /\ CronCompleted
  /\ DOMAIN output = LapNames
  /\ DOMAIN collection = LapNames
  /\ \E lap \in DOMAIN tire_images : tire_images[lap] # {}

\* a key is in downloaded_images only if its image is on disk (it is written
\* only with the bytes fetched for it), and a key whose last download failed
\* is not in it
DownloadedOnDisk ==
  /\ \A tire \in monitor.downloaded_images :
       /\ tire.lap \in DOMAIN tire_images
       /\ tire.position \in tire_images[tire.lap]
  /\ monitor.failed \cap monitor.downloaded_images = {}

\* a fetch (download_image takes an entry off the list) is of a key that is
\* not in downloaded_images
FetchOnlyNew ==
  \A tire \in Keys :
    (tire \in monitor.queue /\ tire \notin monitor'.queue) =>
      tire \notin monitor.downloaded_images

\* the get_new_images of a cycle returns every key whose download failed
\* before and that the listing of the cycle still names
FailedReturnedAgain ==
  (monitor.pc = "idle" /\ monitor' # monitor) =>
    (monitor.failed \cap monitor'.listed) \subseteq monitor'.new_images

====
